---- MODULE Spec2Model ----
(***************************************************************************)
(* A model of two parts of qutebrowser:                                    *)
(*   scripts/mkvenv.py                        the virtualenv setup script  *)
(*   qutebrowser/completion/models/miscmodels.py  the completion builders  *)
(* Strings that the code formats, splits or parses are sequences of        *)
(* one-character strings, so that formatting and parsing are computed.     *)
(***************************************************************************)
EXTENDS Integers, Sequences, FiniteSets, TLC

VARIABLES
    \* ---- scripts/mkvenv.py ----
    args,        \* the argparse.Namespace returned by parse_args()
    dirs,        \* the virtualenv directories that exist on disk
    dirs0,       \* history: dirs when the script started
    pc,          \* the step main() is about to execute, or how it ended
    trace,       \* history: the steps executed so far, with their outcome
    fsops,       \* history: the rmtree / venv.create calls made, with their path
    exitcode,    \* the exit code (the argument of sys.exit), once pc is done/exited/crashed
    \* ---- miscmodels.py ----
    cin,         \* the registries the builder reads (its input)
    cpc,         \* "ready" before the builder ran, then how it ended
    model,       \* the CompletionModel built: the categories with their items
    log,         \* the messages logged through log.completion
    cur,         \* completion.currentIndex(): the selection in the completion view
    closed       \* the on_tab_close_requested calls made: <<win_id, index>>

mkvenvVars == <<args, dirs, dirs0, pc, trace, fsops, exitcode>>
complVars == <<cin, cpc, model, log, cur, closed>>
vars == <<args, dirs, dirs0, pc, trace, fsops, exitcode, cin, cpc, model, log, cur,
         closed>>

(***************************************************************************)
(* Bounds                                                                  *)
(***************************************************************************)
\* subprocess return codes are drawn from -MaxRetCode..MaxRetCode
MaxRetCode == 2
\* a session name has at most MaxNameLen characters
MaxNameLen == 2
\* list_sessions() yields at most MaxSessions names
MaxSessions == 2
\* the command registry holds at most MaxCmds commands
MaxCmds == 2
\* the aliases section holds at most MaxAliases aliases
MaxAliases == 1
\* configdata.DATA has at most MaxSects sections of at most MaxOpts options
MaxSects == 2
MaxOpts == 2
\* a description has at most MaxDescLen characters
MaxDescLen == 2
\* the window registry holds at most MaxWindows windows of at most MaxTabs tabs
MaxWindows == 2
MaxTabs == 10

(***************************************************************************)
(* Helpers on sequences                                                    *)
(***************************************************************************)
IsPrefix(s, t) == Len(s) <= Len(t) /\ SubSeq(t, 1, Len(s)) = s

Last(s) == s[Len(s)]

(***************************************************************************)
(* scripts/mkvenv.py                                                       *)
(***************************************************************************)
VenvDirs == {".venv", "venv2"}

PyqtTypes == {"binary", "source", "link"}

\* a command killed by signal n has the return code -n
RetCodes == (-MaxRetCode)..MaxRetCode

\* parse_args(): every namespace argparse can return
parse_args ==
    [keep : BOOLEAN, venv_dir : VenvDirs, pyqt_type : PyqtTypes, tox_error : BOOLEAN]

\* main(), lines 166-175: the first step after parse_args
main_first(a) ==
    IF a.tox_error THEN "show_tox_error"
    ELSE IF ~a.keep THEN "delete_old_venv"
    ELSE "upgrade_pip"

\* main() with the PyQt dispatch left out
main_pyqt_skipped(a) == "install_requirements"

\* main(), lines 177-184: the PyQt installation chosen by --pyqt-type
main_pyqt(a) ==
    IF a.pyqt_type = "binary" THEN "install_pyqt_binary"
    ELSE IF a.pyqt_type = "source" THEN "install_pyqt_source"
    ELSE IF a.pyqt_type = "link" THEN "install_pyqt_link"
    ELSE "crashed"

\* run_venv() as if subprocess.run were called without check=True: a failing
\* command is not noticed and main() goes on
run_venv_nocheck(venv_dir, rc, cont) ==
    IF venv_dir \notin dirs
    THEN [pc |-> "crashed", exitcode |-> 1, rc |-> 0, raised |-> TRUE]
    ELSE [pc |-> cont, exitcode |-> exitcode, rc |-> rc, raised |-> FALSE]

\* run_venv(): the command runs in the virtualenv and returns rc. A non-zero rc
\* raises CalledProcessError, which ends the process with rc; a missing
\* executable raises FileNotFoundError, which nothing catches.
run_venv(venv_dir, rc, cont) ==
    IF venv_dir \notin dirs
    THEN [pc |-> "crashed", exitcode |-> 1, rc |-> 0, raised |-> TRUE]
    ELSE IF rc # 0
    THEN [pc |-> "exited", exitcode |-> rc, rc |-> rc, raised |-> FALSE]
    ELSE [pc |-> cont, exitcode |-> exitcode, rc |-> 0, raised |-> FALSE]

\* pip_install(): one run_venv call
pip_install(venv_dir, rc, cont) == run_venv(venv_dir, rc, cont)

Entry(step, venv_dir, rc, raised) ==
    [step |-> step, venv |-> venv_dir, rc |-> rc, raised |-> raised]

\* a step that is one pip_install call: upgrade_pip, install_pyqt_binary,
\* install_pyqt_source, install_requirements, install_qutebrowser
PipStep(step, cont) ==
    /\ pc = step
    /\ \E rc \in RetCodes :
         LET r == pip_install(args.venv_dir, rc, cont) IN
         /\ pc' = r.pc
         /\ exitcode' = r.exitcode
         /\ trace' = Append(trace, Entry(step, args.venv_dir, r.rc, r.raised))
    /\ UNCHANGED <<args, dirs, dirs0, fsops, complVars>>

\* show_tox_error() followed by sys.exit(1), lines 166-168
ShowToxError ==
    /\ pc = "show_tox_error"
    /\ IF args.pyqt_type \in {"link", "binary"}
       THEN /\ pc' = "exited"
            /\ trace' = Append(trace, Entry("show_tox_error", args.venv_dir, 0, FALSE))
       ELSE /\ pc' = "crashed"
            /\ trace' = Append(trace, Entry("show_tox_error", args.venv_dir, 0, TRUE))
    /\ exitcode' = 1
    /\ UNCHANGED <<args, dirs, dirs0, fsops, complVars>>

\* delete_old_venv() without the exists() test
delete_old_venv_unchecked(venv_dir, existing) ==
    <<[op |-> "rmtree", path |-> venv_dir]>>

\* delete_old_venv(): the rmtree calls it makes
delete_old_venv(venv_dir, existing) ==
    IF venv_dir \in existing THEN <<[op |-> "rmtree", path |-> venv_dir]>> ELSE <<>>

DeleteOldVenv ==
    /\ pc = "delete_old_venv"
    /\ LET ops == delete_old_venv(args.venv_dir, dirs) IN
       /\ fsops' = fsops \o ops
       /\ \E raised \in (IF ops = <<>> THEN {FALSE} ELSE BOOLEAN) :
            /\ trace' = Append(trace, Entry("delete_old_venv", args.venv_dir, 0, raised))
            /\ IF raised
               THEN pc' = "crashed" /\ exitcode' = 1 /\ dirs' = dirs
               ELSE /\ pc' = "create_venv"
                    /\ exitcode' = exitcode
                    /\ dirs' = IF ops = <<>> THEN dirs ELSE dirs \ {args.venv_dir}
    /\ UNCHANGED <<args, dirs0, complVars>>

CreateVenv ==
    /\ pc = "create_venv"
    /\ fsops' = Append(fsops, [op |-> "create", path |-> args.venv_dir])
    /\ \E raised \in BOOLEAN :
         /\ trace' = Append(trace, Entry("create_venv", args.venv_dir, 0, raised))
         /\ IF raised
            THEN /\ pc' = "crashed"
                 /\ exitcode' = 1
                 /\ \E left \in BOOLEAN :
                      dirs' = IF left THEN dirs \cup {args.venv_dir} ELSE dirs
            ELSE /\ pc' = "upgrade_pip"
                 /\ exitcode' = exitcode
                 /\ dirs' = dirs \cup {args.venv_dir}
    /\ UNCHANGED <<args, dirs0, complVars>>

UpgradePip == PipStep("upgrade_pip", main_pyqt(args))

InstallPyqtBinary == PipStep("install_pyqt_binary", "install_requirements")

InstallPyqtSource == PipStep("install_pyqt_source", "install_requirements")

\* install_pyqt_link(): link_pyqt runs in this process, not through run_venv
InstallPyqtLink ==
    /\ pc = "install_pyqt_link"
    /\ \E raised \in BOOLEAN :
         /\ trace' = Append(trace, Entry("install_pyqt_link", args.venv_dir, 0, raised))
         /\ pc' = IF raised THEN "crashed" ELSE "install_requirements"
         /\ exitcode' = IF raised THEN 1 ELSE exitcode
    /\ UNCHANGED <<args, dirs, dirs0, fsops, complVars>>

InstallRequirements == PipStep("install_requirements", "install_qutebrowser")

InstallQutebrowser == PipStep("install_qutebrowser", "done")

MkvenvIdle ==
    /\ args = [keep |-> FALSE, venv_dir |-> ".venv", pyqt_type |-> "binary",
               tox_error |-> FALSE]
    /\ dirs = {}
    /\ dirs0 = {}
    /\ pc = "done"
    /\ trace = <<>>
    /\ fsops = <<>>
    /\ exitcode = 0

ComplIdle ==
    /\ cin = <<>>
    /\ cpc = "idle"
    /\ model = <<>>
    /\ log = <<>>
    /\ cur = <<>>
    /\ closed = <<>>

InitMkvenv ==
    /\ args \in parse_args
    /\ dirs \in SUBSET VenvDirs
    /\ dirs0 = dirs
    /\ pc = main_first(args)
    /\ trace = <<>>
    /\ fsops = <<>>
    /\ exitcode = 0
    /\ ComplIdle

NextMkvenv ==
    \/ ShowToxError
    \/ DeleteOldVenv
    \/ CreateVenv
    \/ UpgradePip
    \/ InstallPyqtBinary
    \/ InstallPyqtSource
    \/ InstallPyqtLink
    \/ InstallRequirements
    \/ InstallQutebrowser

SpecMkvenv == InitMkvenv /\ [][NextMkvenv]_vars

(***************************************************************************)
(* miscmodels.py: text                                                     *)
(***************************************************************************)
\* the sequences over S of length at most n
SeqsUpTo(S, n) == UNION {[1..k -> S] : k \in 0..n}

\* str.startswith for a one-character prefix
startswith(s, c) == Len(s) >= 1 /\ s[1] = c

\* the characters used, in code point order (the order Python compares by)
CodeOrder ==
    <<"\n", " ", "'", ",", "-", "/", "0", "1", "2", "3", "4", "5", "6", "7", "8", "9",
      ":", ">", "A", "_", "a", "b", "f", "i", "l", "o", "r", "s", "x", "y">>

Ord(c) == CHOOSE i \in 1..Len(CodeOrder) : CodeOrder[i] = c

\* s <= t as Python compares str values
RECURSIVE StrLeq(_, _)
StrLeq(s, t) ==
    IF s = <<>> THEN TRUE
    ELSE IF t = <<>> THEN FALSE
    ELSE IF s[1] # t[1] THEN Ord(s[1]) < Ord(t[1])
    ELSE StrLeq(Tail(s), Tail(t))

\* sep.join(parts)
RECURSIVE join(_, _)
join(sep, parts) ==
    IF parts = <<>> THEN <<>>
    ELSE IF Len(parts) = 1 THEN parts[1]
    ELSE parts[1] \o sep \o join(sep, Tail(parts))

\* the index of the first c in s, 0 when there is none
Find(s, c) ==
    IF \E i \in 1..Len(s) : s[i] = c
    THEN CHOOSE i \in 1..Len(s) : s[i] = c /\ \A j \in 1..(i - 1) : s[j] # c
    ELSE 0

\* str.splitlines() for the line boundary '\n': no line for the empty string
\* and none after a final '\n'
RECURSIVE splitlines(_)
splitlines(s) ==
    IF s = <<>> THEN <<>>
    ELSE LET i == Find(s, "\n")
         IN IF i = 0 THEN <<s>>
            ELSE <<SubSeq(s, 1, i - 1)>> \o splitlines(SubSeq(s, i + 1, Len(s)))

Digits == <<"0", "1", "2", "3", "4", "5", "6", "7", "8", "9">>

\* '{}'.format(n) for an int n >= 0: its decimal digits
RECURSIVE format_int(_)
format_int(n) ==
    IF n < 10 THEN <<Digits[n + 1]>>
    ELSE format_int(n \div 10) \o <<Digits[(n % 10) + 1]>>

IsDigit(c) == \E d \in 1..10 : Digits[d] = c

DigitValue(c) == (CHOOSE d \in 1..10 : Digits[d] = c) - 1

\* int(s) for a str of decimal digits; anything else here is a ValueError
RECURSIVE int_value(_)
int_value(s) ==
    IF Len(s) = 1 THEN DigitValue(s[1])
    ELSE 10 * int_value(SubSeq(s, 1, Len(s) - 1)) + DigitValue(s[Len(s)])

int(s) ==
    IF s # <<>> /\ \A i \in 1..Len(s) : IsDigit(s[i])
    THEN [exc |-> "none", value |-> int_value(s)]
    ELSE [exc |-> "ValueError", value |-> 0]

\* s.split(c): the parts of s between the occurrences of c
RECURSIVE split(_, _)
split(s, c) ==
    LET i == Find(s, c)
    IN IF i = 0 THEN <<s>>
       ELSE <<SubSeq(s, 1, i - 1)>> \o split(SubSeq(s, i + 1, Len(s)), c)

\* an item as new_item(cat, name, desc='', misc=None) stores it
Item(name, desc, misc) == [name |-> name, desc |-> desc, misc |-> misc]

\* a category as new_category(name) creates it, with the items added to it
Category(name, items) == [name |-> name, items |-> items]

(***************************************************************************)
(* miscmodels.py: session()                                                *)
(***************************************************************************)
NameChars == {"_", "a"}

SessionNames == SeqsUpTo(NameChars, MaxNameLen)

\* what iterating list_sessions() can do: yield the names, then end or raise
ListSessions ==
    [names : SeqsUpTo(SessionNames, MaxSessions),
     raises : {"none", "OSError", "KeyError"}]

\* the names session() adds: those not starting with '_'
session_items(names) ==
    LET shown == SelectSeq(names, LAMBDA n : ~startswith(n, "_"))
    IN [i \in 1..Len(shown) |-> Item(shown[i], <<>>, "None")]

\* session() with an except clause that misses OSError
session_uncaught(ls) ==
    IF ls.raises = "none"
    THEN [cpc |-> "returned",
          model |-> <<Category("Sessions", session_items(ls.names))>>,
          log |-> <<>>]
    ELSE [cpc |-> "raised", model |-> <<>>, log |-> <<>>]

\* session(): the model it returns and what it logs, or the exception it lets
\* through
session(ls) ==
    IF ls.raises \in {"none", "OSError"}
    THEN [cpc |-> "returned",
          model |-> <<Category("Sessions", session_items(ls.names))>>,
          log |-> IF ls.raises = "OSError"
                  THEN <<"Failed to list sessions!">> ELSE <<>>]
    ELSE [cpc |-> "raised", model |-> <<>>, log |-> <<>>]

Session ==
    /\ cpc = "ready"
    /\ LET r == session(cin) IN
       /\ cpc' = r.cpc
       /\ model' = r.model
       /\ log' = r.log
    /\ UNCHANGED <<cin, cur, closed, mkvenvVars>>

InitSession ==
    /\ cin \in ListSessions
    /\ cpc = "ready"
    /\ model = <<>>
    /\ log = <<>>
    /\ cur = <<>>
    /\ closed = <<>>
    /\ MkvenvIdle

NextSession == Session

SpecSession == InitSession /\ [][NextSession]_vars

(***************************************************************************)
(* miscmodels.py: _get_cmd_completions(), command(), bind()                *)
(***************************************************************************)
CmdNames == {<<"a">>, <<"a", "b">>, <<"b">>}

AliasNames == {<<"a">>, <<"b", "a">>}

CmdFlags == [debug : BOOLEAN, hide : BOOLEAN, deprecated : BOOLEAN]

\* a Command object of cmdutils.cmd_dict
Cmd(name, f) ==
    [name |-> name, desc |-> <<"d">> \o name, debug |-> f.debug, hide |-> f.hide,
     deprecated |-> f.deprecated]

\* set(cmdutils.cmd_dict.values()) for the registries of 1..n commands; the
\* registry is never empty (line 165)
CmdDicts(n) ==
    UNION {{{Cmd(nm, f[nm]) : nm \in N} : f \in [N -> CmdFlags]} :
             N \in {M \in SUBSET CmdNames : Cardinality(M) \in 1..n}}

\* config.section('aliases').items(), in the section's order
AliasLists ==
    {a \in SeqsUpTo([name : AliasNames, cmd : {<<"b">>}], MaxAliases) :
        \A i, j \in 1..Len(a) : a[i].name = a[j].name => i = j}

\* the keys bound to command 'a' in normal mode; nothing else is bound
KeyLists == {<<>>, << <<"x">> >>, << <<"x">>, <<"y">> >>}

\* get_reverse_bindings_for('normal').get(name, [])
cmd_to_keys(in, name) == IF name = <<"a">> THEN in.keys ELSE <<>>

\* the orders in which iterating a set can yield its elements
Orders(S) ==
    {o \in [1..Cardinality(S) -> S] : \A i, j \in 1..Cardinality(S) : o[i] = o[j] => i = j}

AliasFor == <<"A", "l", "i", "a", "s", " ", "f", "o", "r", " ", "'">>

\* lines 168-173: the tuples of the commands, in iteration order
RECURSIVE cmd_tuples(_, _, _, _)
cmd_tuples(in, order, include_hidden, prefix) ==
    IF order = <<>> THEN <<>>
    ELSE LET obj == order[1]
             hide_debug == obj.debug /\ ~in.debug
             hide_hidden == obj.hide /\ ~include_hidden
             rest == cmd_tuples(in, Tail(order), include_hidden, prefix)
         IN IF ~(hide_debug \/ hide_hidden \/ obj.deprecated)
            THEN <<Item(prefix \o obj.name, obj.desc,
                        join(<<",", " ">>, cmd_to_keys(in, obj.name)))>> \o rest
            ELSE rest

\* lines 175-178: the tuples of the aliases
alias_tuples(in) ==
    [i \in 1..Len(in.aliases) |->
        Item(in.aliases[i].name, AliasFor \o in.aliases[i].cmd \o <<"'">>,
             join(<<",", " ">>, cmd_to_keys(in, in.aliases[i].name)))]

\* _get_cmd_completions(): order is the order in which the set of commands
\* is iterated
get_cmd_completions(in, order, include_hidden, include_aliases, prefix) ==
    cmd_tuples(in, order, include_hidden, prefix)
    \o (IF include_aliases THEN alias_tuples(in) ELSE <<>>)

\* command()
Command ==
    /\ cpc = "ready"
    /\ \E order \in Orders(cin.cmds) :
         model' = <<Category("Commands",
                             get_cmd_completions(cin, order, FALSE, TRUE, <<>>))>>
    /\ cpc' = "returned"
    /\ UNCHANGED <<cin, log, cur, closed, mkvenvVars>>

\* bind(_)
Bind ==
    /\ cpc = "ready"
    /\ \E order \in Orders(cin.cmds) :
         model' = <<Category("Commands",
                             get_cmd_completions(cin, order, TRUE, TRUE, <<>>))>>
    /\ cpc' = "returned"
    /\ UNCHANGED <<cin, log, cur, closed, mkvenvVars>>

InitCmd ==
    /\ cin \in [cmds : CmdDicts(MaxCmds), debug : BOOLEAN, aliases : AliasLists,
                 keys : KeyLists]
    /\ cpc = "ready"
    /\ model = <<>>
    /\ log = <<>>
    /\ cur = <<>>
    /\ closed = <<>>
    /\ MkvenvIdle

NextCmd ==
    \/ Command
    \/ Bind

SpecCmd == InitCmd /\ [][NextCmd]_vars

(***************************************************************************)
(* miscmodels.py: helptopic()                                              *)
(***************************************************************************)
SectNames == <<<<"g">>, <<"u">>, <<"g", "u">>, <<"u", "g">>>>

OptNames == <<<<"x">>, <<"y">>, <<"x", "y">>, <<"y", "x">>>>

DescChars == {"a", "\n"}

\* an option of a section: has_desc is whether sectdata.descriptions has its
\* name as a key
Options ==
    [has_desc : {TRUE}, desc : SeqsUpTo(DescChars, MaxDescLen)]
    \cup [has_desc : {FALSE}, desc : {<<>>}]

\* a section of configdata.DATA: has_descriptions is whether the section object
\* has a descriptions attribute (a ValueList has none)
Sections ==
    [has_descriptions : {TRUE}, opts : SeqsUpTo(Options, MaxOpts)]
    \cup [has_descriptions : {FALSE},
          opts : SeqsUpTo([has_desc : {FALSE}, desc : {<<>>}], MaxOpts)]

\* configdata.DATA, an ordered mapping: section k is named SectNames[k], and
\* option j of a section OptNames[j]
ConfigData == SeqsUpTo(Sections, MaxSects)

\* lines 53-60: the description of one option, or the exception raised
option_desc(sect, opt) ==
    IF ~sect.has_descriptions \/ ~opt.has_desc
    THEN [exc |-> "none", desc |-> <<>>]
    ELSE LET lines == splitlines(opt.desc)
         IN IF lines = <<>>
            THEN [exc |-> "IndexError", desc |-> <<>>]
            ELSE [exc |-> "none", desc |-> lines[1]]

\* the (section, option) positions of data in iteration order
RECURSIVE OptPositions(_, _)
OptPositions(data, k) ==
    IF k > Len(data) THEN <<>>
    ELSE [j \in 1..Len(data[k].opts) |-> <<k, j>>] \o OptPositions(data, k + 1)

\* lines 50-62: the items of the 'Settings' category
settings_items(data) ==
    LET pos == OptPositions(data, 1)
    IN [i \in 1..Len(pos) |->
          LET k == pos[i][1]
              j == pos[i][2]
          IN Item(SectNames[k] \o <<"-", ">">> \o OptNames[j],
                  option_desc(data[k], data[k].opts[j]).desc, "None")]

\* helptopic(): the model, or the exception of the first option that raises
helptopic(in, order) ==
    IF \E k \in 1..Len(in.data) : \E j \in 1..Len(in.data[k].opts) :
          option_desc(in.data[k], in.data[k].opts[j]).exc # "none"
    THEN [cpc |-> "raised", model |-> <<>>]
    ELSE [cpc |-> "returned",
          model |-> <<Category("Commands",
                               get_cmd_completions(in, order, TRUE, FALSE, <<":">>)),
                      Category("Settings", settings_items(in.data))>>]

Helptopic ==
    /\ cpc = "ready"
    /\ \E order \in Orders(cin.cmds) :
         LET r == helptopic(cin, order) IN
         /\ cpc' = r.cpc
         /\ model' = r.model
    /\ UNCHANGED <<cin, log, cur, closed, mkvenvVars>>

InitHelptopic ==
    /\ cin \in [cmds : {c \in CmdDicts(1) : \A o \in c : o.name = <<"a">>},
                 debug : {FALSE}, aliases : {<<>>}, keys : {<<>>}, data : ConfigData]
    /\ cpc = "ready"
    /\ model = <<>>
    /\ log = <<>>
    /\ cur = <<>>
    /\ closed = <<>>
    /\ MkvenvIdle

NextHelptopic == Helptopic

SpecHelptopic == InitHelptopic /\ [][NextHelptopic]_vars

(***************************************************************************)
(* miscmodels.py: buffer() and its delete_buffer()                         *)
(***************************************************************************)
WinIds == {0, 5, 12}

TabCounts == {0, 1, 2, MaxTabs}

\* objreg.window_registry in iteration order: each window with its id and
\* its tabbed browser's shutting_down and count()
WindowRegistries ==
    {r \in SeqsUpTo([id : WinIds, shutting_down : BOOLEAN, count : TabCounts],
                    MaxWindows) :
        \A i, j \in 1..Len(r) : r[i].id = r[j].id => i = j}

\* tab.url().toDisplayString() and page_title(idx) of tab idx of window w
TabUrl(w, idx) == <<"url", w, idx>>

TabTitle(w, idx) == <<"title", w, idx>>

\* buffer() without the shutting_down test
buffer_all_windows(registry) ==
    [k \in 1..Len(registry) |->
        Category(format_int(registry[k].id),
                 [n \in 1..registry[k].count |->
                     Item(format_int(registry[k].id) \o <<"/">> \o format_int((n - 1) + 1),
                          TabUrl(registry[k].id, n - 1),
                          TabTitle(registry[k].id, n - 1))])]

\* buffer(), lines 126-137: item n of a category is built from tab idx = n - 1
buffer(registry) ==
    LET open == SelectSeq(registry, LAMBDA w : ~w.shutting_down)
    IN [k \in 1..Len(open) |->
          Category(format_int(open[k].id),
                   [n \in 1..open[k].count |->
                       Item(format_int(open[k].id) \o <<"/">> \o format_int((n - 1) + 1),
                            TabUrl(open[k].id, n - 1),
                            TabTitle(open[k].id, n - 1))])]

\* the values completion.currentIndex() can have: invalid, a category, or
\* row r of category c
Selections(m) ==
    {<<>>} \cup {<<c>> : c \in 1..Len(m)}
    \cup UNION {{<<c, r>> : r \in 1..Len(m[c].items)} : c \in 1..Len(m)}

\* delete_buffer() closing the tab whose index is the number of the label
delete_buffer_off_by_one(m, index, registry) ==
    IF Len(index) < 2 THEN [cpc |-> "raised", closed |-> <<>>]
    ELSE LET parts == split(m[index[1]].items[index[2]].name, "/")
         IN [cpc |-> "deleted",
             closed |-> <<[win |-> int(parts[1]).value,
                           idx |-> int(parts[2]).value]>>]

\* delete_buffer(), lines 108-118: the on_tab_close_requested call it makes,
\* or the exception it raises
delete_buffer(m, index, registry) ==
    IF Len(index) < 2 THEN [cpc |-> "raised", closed |-> <<>>]
    ELSE LET parts == split(m[index[1]].items[index[2]].name, "/")
         IN IF Len(parts) # 2 THEN [cpc |-> "raised", closed |-> <<>>]
            ELSE LET win_id == int(parts[1])
                     tab_index == int(parts[2])
                 IN IF win_id.exc # "none"
                    THEN [cpc |-> "raised", closed |-> <<>>]
                    ELSE IF ~\E k \in 1..Len(registry) : registry[k].id = win_id.value
                    THEN [cpc |-> "raised", closed |-> <<>>]
                    ELSE IF tab_index.exc # "none"
                    THEN [cpc |-> "raised", closed |-> <<>>]
                    ELSE [cpc |-> "deleted",
                          closed |-> <<[win |-> win_id.value,
                                        idx |-> tab_index.value - 1]>>]

Buffer ==
    /\ cpc = "ready"
    /\ model' = buffer(cin)
    /\ cpc' = "returned"
    /\ UNCHANGED <<cin, log, cur, closed, mkvenvVars>>

\* the user deletes the current item of the completion: delete_cur_item
DeleteBuffer ==
    /\ cpc = "returned"
    /\ \E index \in Selections(model) :
         LET r == delete_buffer(model, index, cin) IN
         /\ cur' = index
         /\ cpc' = r.cpc
         /\ closed' = r.closed
    /\ UNCHANGED <<cin, model, log, mkvenvVars>>

InitBuffer ==
    /\ cin \in WindowRegistries
    /\ cpc = "ready"
    /\ model = <<>>
    /\ log = <<>>
    /\ cur = <<>>
    /\ closed = <<>>
    /\ MkvenvIdle

NextBuffer ==
    \/ Buffer
    \/ DeleteBuffer

SpecBuffer == InitBuffer /\ [][NextBuffer]_vars

(***************************************************************************)
(* Properties of miscmodels.py                                             *)
(***************************************************************************)
\* C2: when list_sessions() raised OSError, session() has returned a model
\* with the one category 'Sessions' (holding the names it got before the
\* failure that do not start with '_') and has logged the failure; it has not
\* raised.
C2_SessionOSError ==
    (cin.raises = "OSError" /\ cpc # "ready") =>
        /\ cpc = "returned"
        /\ log = <<"Failed to list sessions!">>
        /\ Len(model) = 1
        /\ model[1].name = "Sessions"
        /\ \A i \in 1..Len(model[1].items) :
              model[1].items[i].name = <<>> \/ model[1].items[i].name[1] # "_"
        /\ Len(model[1].items) =
             Cardinality({i \in 1..Len(cin.names) :
                            cin.names[i] = <<>> \/ cin.names[i][1] # "_"})

C2_Witness ==
    /\ cin.raises = "OSError"
    /\ cin.names = << <<"a">>, <<"_", "a">> >>
    /\ cpc = "returned"
    /\ log # <<>>
    /\ Len(model[1].items) = 1

\* the text of d before its first '\n'
FirstLine(d) == IF Find(d, "\n") = 0 THEN d ELSE SubSeq(d, 1, Find(d, "\n") - 1)

\* the options of data as (section, option) positions
OptionsOf(data) ==
    {<<k, j>> \in (1..Len(data)) \X (1..MaxOpts) : j <= Len(data[k].opts)}

\* the 'Settings' items are exactly one per option, named section->option,
\* described by the first line of the description, or '' when it is missing
SettingsAsClaimed ==
    /\ Len(model) = 2
    /\ model[2].name = "Settings"
    /\ Len(model[2].items) = Cardinality(OptionsOf(cin.data))
    /\ \A p \in OptionsOf(cin.data) :
         LET sect == cin.data[p[1]]
             opt == sect.opts[p[2]]
             name == SectNames[p[1]] \o <<"-", ">">> \o OptNames[p[2]]
             desc == IF sect.has_descriptions /\ opt.has_desc
                     THEN FirstLine(opt.desc) ELSE <<>>
         IN Cardinality({i \in 1..Len(model[2].items) :
                           model[2].items[i].name = name}) = 1
            /\ \E i \in 1..Len(model[2].items) :
                  model[2].items[i].name = name /\ model[2].items[i].desc = desc

\* C3: helptopic() never fails, and its 'Settings' category is as claimed,
\* for every description value.
C3_HelptopicSettings ==
    cpc # "ready" => cpc = "returned" /\ SettingsAsClaimed

\* what holds of helptopic(): it fails exactly when some option has the empty
\* string as its description, and otherwise the category is as claimed
C3_ExceptEmptyDescription ==
    cpc # "ready" =>
        IF \E p \in OptionsOf(cin.data) :
              /\ cin.data[p[1]].has_descriptions
              /\ cin.data[p[1]].opts[p[2]].has_desc
              /\ cin.data[p[1]].opts[p[2]].desc = <<>>
        THEN cpc = "raised"
        ELSE cpc = "returned" /\ SettingsAsClaimed

\* the windows of the registry whose tabbed browser is not shutting down
OpenWindows == {k \in 1..Len(cin) : ~cin[k].shutting_down}

\* the number of open windows among the first k of the registry
OpenUpTo(k) == Cardinality({j \in OpenWindows : j <= k})

\* C6: the model buffer() built has one category per window that is not
\* shutting down, in registry order and named after the window id, holding
\* one item per tab in tab order whose first column is '<win_id>/<idx + 1>';
\* a window that is shutting down has no category and no item.
C6_BufferModel ==
    cpc # "ready" =>
        /\ Len(model) = Cardinality(OpenWindows)
        /\ \A k \in OpenWindows :
              LET cat == model[OpenUpTo(k)] IN
              /\ cat.name = format_int(cin[k].id)
              /\ Len(cat.items) = cin[k].count
              /\ \A idx \in 0..(cin[k].count - 1) :
                    /\ cat.items[idx + 1].name =
                         format_int(cin[k].id) \o <<"/">> \o format_int(idx + 1)
                    /\ cat.items[idx + 1].desc = TabUrl(cin[k].id, idx)
        /\ \A k \in 1..Len(cin) :
              cin[k].shutting_down =>
                  \A c \in 1..Len(model) :
                      /\ model[c].name # format_int(cin[k].id)
                      /\ \A n \in 1..Len(model[c].items) :
                            model[c].items[n].desc[2] # cin[k].id

C6_Witness ==
    /\ cpc = "returned"
    /\ Len(cin) = 2
    /\ cin[1].shutting_down /\ cin[1].count = 2
    /\ ~cin[2].shutting_down /\ cin[2].id = 12 /\ cin[2].count = MaxTabs
    /\ Len(model) = 1
    /\ model[1].items[MaxTabs].name = <<"1", "2", "/", "1", "0">>

\* C7: deleting the item labelled from tab idx of window w requests the
\* closing of tab idx of window w, and of nothing else.
C7_DeleteClosesSelected ==
    (cpc \in {"deleted", "raised"} /\ Len(cur) = 2) =>
        LET k == CHOOSE j \in OpenWindows : OpenUpTo(j) = cur[1]
        IN /\ cpc = "deleted"
           /\ model[cur[1]].items[cur[2]].desc = TabUrl(cin[k].id, cur[2] - 1)
           /\ closed = <<[win |-> cin[k].id, idx |-> cur[2] - 1]>>

C7_Witness ==
    /\ cpc = "deleted"
    /\ Len(cin) = 2
    /\ cin[1].id = 5
    /\ cin[2].id = 12
    /\ cur = <<2, MaxTabs>>
    /\ closed = <<[win |-> 12, idx |-> MaxTabs - 1]>>

\* the items are in non-decreasing order of their names
SortedByName(items) ==
    \A i \in 1..(Len(items) - 1) : StrLeq(items[i].name, items[i + 1].name)

\* C8: the list _get_cmd_completions returns (the items of the 'Commands'
\* category of command() and bind()) is sorted by name.
C8_SortedByName ==
    cpc = "returned" => SortedByName(model[1].items)

(***************************************************************************)
(* Properties of scripts/mkvenv.py                                         *)
(***************************************************************************)
PipSteps ==
    {"upgrade_pip", "install_pyqt_binary", "install_pyqt_source",
     "install_requirements", "install_qutebrowser"}

StepsOf(t) == [i \in 1..Len(t) |-> t[i].step]

\* C1: a pip step whose command returned a non-zero code is the last step
\* executed, and the process has exited with that same code.
C1_FailedCommandExits ==
    \A i \in 1..Len(trace) :
        (trace[i].step \in PipSteps /\ trace[i].rc # 0) =>
            /\ i = Len(trace)
            /\ pc = "exited"
            /\ exitcode = trace[i].rc

C1_Witness ==
    /\ pc = "exited"
    /\ exitcode = 2
    /\ Len(trace) = 4
    /\ Last(trace).step = "install_pyqt_source"
    /\ Last(trace).rc = 2

\* the steps of a complete run, in order, as the claim C4 lists them
ExpectedSteps(a) ==
    (IF a.keep THEN <<>> ELSE <<"delete_old_venv", "create_venv">>)
    \o <<"upgrade_pip">>
    \o <<CASE a.pyqt_type = "binary" -> "install_pyqt_binary"
           [] a.pyqt_type = "source" -> "install_pyqt_source"
           [] a.pyqt_type = "link" -> "install_pyqt_link">>
    \o <<"install_requirements", "install_qutebrowser">>

\* C4: without --tox-error the steps executed are always an initial part of
\* the fixed order delete, create (unless --keep), upgrade pip, the one PyQt
\* step of --pyqt-type, requirements, qutebrowser; a run that ends without a
\* failure has executed all of them, each once.
C4_LinearOrder ==
    ~args.tox_error =>
        /\ IsPrefix(StepsOf(trace), ExpectedSteps(args))
        /\ pc = "done" => StepsOf(trace) = ExpectedSteps(args)
        /\ pc = "done" => \A i \in 1..Len(trace) : ~trace[i].raised /\ trace[i].rc = 0

C4_Witness ==
    /\ pc = "done"
    /\ ~args.tox_error
    /\ ~args.keep
    /\ args.pyqt_type = "link"
    /\ Len(trace) = 6

Rmtree(d) == [op |-> "rmtree", path |-> d]

Create(d) == [op |-> "create", path |-> d]

\* C5: with --keep no directory is removed or created and every step runs
\* against args.venv_dir; without --keep the only file-system calls are the
\* removal of args.venv_dir (made only when it existed) and then its creation,
\* and delete_old_venv on a missing directory does nothing and does not fail.
C5_KeepAndDelete ==
    /\ \A i \in 1..Len(trace) : trace[i].venv = args.venv_dir
    /\ dirs \ {args.venv_dir} = dirs0 \ {args.venv_dir}
    /\ args.keep =>
          /\ fsops = <<>>
          /\ dirs = dirs0
          /\ pc = "done" => \E i \in 1..Len(trace) : trace[i].step = "upgrade_pip"
    /\ ~args.keep =>
          /\ IsPrefix(fsops,
                (IF args.venv_dir \in dirs0 THEN <<Rmtree(args.venv_dir)>> ELSE <<>>)
                \o <<Create(args.venv_dir)>>)
          /\ \A i \in 1..Len(trace) :
                (trace[i].step = "delete_old_venv" /\ args.venv_dir \notin dirs0) =>
                    ~trace[i].raised
          /\ \A i \in 1..Len(trace) :
                (trace[i].step = "create_venv" /\ ~trace[i].raised) =>
                    /\ Last(fsops) = Create(args.venv_dir)
                    /\ args.venv_dir \in dirs

C5_Witness ==
    /\ args.keep
    /\ args.venv_dir \in dirs0
    /\ pc = "done"
    /\ Len(trace) = 4

\* the other cases of C5: an existing directory removed and re-created, and a
\* removal skipped
C5_WitnessDeleted ==
    /\ ~args.keep
    /\ args.venv_dir \in dirs0
    /\ fsops = <<Rmtree(args.venv_dir), Create(args.venv_dir)>>
    /\ pc = "done"

C5_WitnessSkipped ==
    /\ ~args.keep
    /\ args.venv_dir \notin dirs0
    /\ fsops = <<Create(args.venv_dir)>>
    /\ pc = "done"

====
